---- MODULE Spec2Model ----
(***************************************************************************)
(* Model of tools/package_tool.py: the RBL header builder                  *)
(* create_firmware_header and the command-line run that wraps a patch file *)
(* into an RBL package (package_patch and the __main__ block).             *)
(*                                                                         *)
(* Representation of Python values                                         *)
(*   int      small integers (algo, algo2, exit codes) are TLA+ integers;  *)
(*            integers that may need 32 bits or more (timestamps, sizes,   *)
(*            CRC values) are "wide" records [hi |-> h, lo |-> l] with     *)
(*            value h * 65536 + l, 0 <= l < 65536, h >= 0.                 *)
(*   float    a non-negative timestamp is [sec |-> wide, frac |-> 0..999]: *)
(*            whole seconds and thousandths.                               *)
(*   bytes    a sequence of runs [b |-> byte, n |-> wide]: byte b repeated *)
(*            n times.  Lit(s) is the bytes object of a plain sequence of  *)
(*            byte values; runs let a 4 GiB object be written down.        *)
(*   str      a sequence of Unicode code points.                           *)
(*   result   [exc |-> "none", value |-> bytes as a plain sequence], or    *)
(*            [exc |-> <exception class>, value |-> << >>] when the call   *)
(*            raises.                                                      *)
(***************************************************************************)
EXTENDS Integers, Sequences, FiniteSets, TLC

VARIABLES
    calls,        \* sequence of [args, result]: the header-builder calls made so far
    pc,           \* position of the command-line run
    argv,         \* sys.argv of the run
    fs,           \* the file system: path -> [kind, data, mtime, perm]
    new_fw_obj,   \* package_patch local: content read from new_file
    patch_obj,    \* package_patch local: content read from patch_file
    my_head,      \* package_patch local: result of create_firmware_header
    output_file,  \* the output path decided by __main__
    out_open,     \* TRUE while the output file is open for writing
    buffer_size,  \* capacity of the open file object's write buffer, in bytes
    out_buf,      \* bytes written to the file object and not yet to the file
    fs0,          \* history: the file system as the run found it
    exit_code     \* "running", 0 (normal end), 1 (sys.exit(1) or uncaught exception)

vars == <<calls, pc, argv, fs, new_fw_obj, patch_obj, my_head, output_file, out_open, buffer_size, out_buf, fs0, exit_code>>

(* the file object of the with block *)
Writer == << out_open, buffer_size, out_buf >>

----------------------------------------------------------------------------
(* Wide integers *)

(* the radix of the two limbs: 2^16 *)
Base == 256 * 256

W(h, l) == [hi |-> h, lo |-> l]

WideOf(k) == W(k \div Base, k % Base)

WAdd(x, y) == W(x.hi + y.hi + ((x.lo + y.lo) \div Base), (x.lo + y.lo) % Base)

WIsZero(x) == x.hi = 0 /\ x.lo = 0

WLeq(x, y) == x.hi < y.hi \/ (x.hi = y.hi /\ x.lo <= y.lo)

(* x - y for x >= y *)
WSub(x, y) ==
    IF x.lo >= y.lo THEN W(x.hi - y.hi, x.lo - y.lo)
    ELSE W(x.hi - y.hi - 1, x.lo + Base - y.lo)

WHalf(x) == W(x.hi \div 2, (x.lo \div 2) + (x.hi % 2) * (Base \div 2))

(* Bitwise exclusive or of two non-negative integers *)
RECURSIVE Xor(_, _)
Xor(a, b) ==
    IF a = 0 THEN b
    ELSE IF b = 0 THEN a
    ELSE 2 * Xor(a \div 2, b \div 2) + ((a + b) % 2)

(* The same on bytes and on 16-bit values, looked up in a table of Xor *)
XorTable == [a \in 0..255 |-> [b \in 0..255 |-> Xor(a, b)]]

Xor8(a, b) == XorTable[a][b]

Xor16(a, b) == XorTable[a \div 256][b \div 256] * 256 + XorTable[a % 256][b % 256]

----------------------------------------------------------------------------
(* bytes objects *)

Lit(s) == [i \in 1..Len(s) |-> [b |-> s[i], n |-> W(0, 1)]]

Repeat(byte, count) == << [b |-> byte, n |-> count] >>

(* len(bytes_obj): the run counts of o[i..j] added up, by halves *)
RECURSIVE BLenRange(_, _, _)
BLenRange(o, i, j) ==
    IF i > j THEN W(0, 0)
    ELSE IF i = j THEN o[i].n
    ELSE WAdd(BLenRange(o, i, (i + j) \div 2), BLenRange(o, ((i + j) \div 2) + 1, j))

BLen(o) == BLenRange(o, 1, Len(o))

----------------------------------------------------------------------------
(* zlib.crc32: reflected CRC-32, polynomial 0xEDB88320, initial value and  *)
(* final exclusive or 0xFFFFFFFF, one table step per input byte.           *)

PolyHi == 60856
PolyLo == 33568

CrcShift1(c) ==
    LET s == W(c.hi \div 2, (c.lo \div 2) + (c.hi % 2) * 32768)
    IN  IF c.lo % 2 = 1 THEN W(Xor(s.hi, PolyHi), Xor(s.lo, PolyLo)) ELSE s

RECURSIVE CrcTableEntry(_, _)
CrcTableEntry(c, k) == IF k = 0 THEN c ELSE CrcTableEntry(CrcShift1(c), k - 1)

CrcTable == [i \in 0..255 |-> CrcTableEntry(W(0, i), 8)]

CrcByte(c, byte) ==
    LET t == CrcTable[Xor8(c.lo % 256, byte)]
    IN  W(Xor16(t.hi, c.hi \div 256), Xor16(t.lo, (c.lo \div 256) + (c.hi % 256) * 256))

(* the register after n more bytes of value byte; the n steps are taken in  *)
(* two halves, the first evaluated before the second starts (the test on   *)
(* first.hi, which always holds), so that the evaluation depth stays       *)
(* logarithmic in n                                                        *)
RECURSIVE CrcRun(_, _, _)
CrcRun(c, byte, n) ==
    IF WIsZero(n) THEN c
    ELSE IF n = W(0, 1) THEN CrcByte(c, byte)
    ELSE LET first == CrcRun(c, byte, WHalf(n))
         IN  IF first.hi >= 0 THEN CrcRun(first, byte, WSub(n, WHalf(n))) ELSE first

(* the register after the runs o[i..j] *)
RECURSIVE CrcUpdate(_, _, _, _)
CrcUpdate(c, o, i, j) ==
    IF i > j THEN c
    ELSE IF i = j THEN CrcRun(c, o[i].b, o[i].n)
    ELSE LET first == CrcUpdate(c, o, i, (i + j) \div 2)
         IN  IF first.hi >= 0 THEN CrcUpdate(first, o, ((i + j) \div 2) + 1, j) ELSE first

crc32(bytes_obj) ==
    LET c == CrcUpdate(W(65535, 65535), bytes_obj, 1, Len(bytes_obj))
    IN  W(65535 - c.hi, 65535 - c.lo)

----------------------------------------------------------------------------
(* struct.pack and str.encode, as create_firmware_header uses them *)

(* '<H': an integer outside 0..65535 raises struct.error *)
PackH_ok(k) == 0 <= k /\ k <= 65535

(* variant: the 16-bit fields big-endian ('>H') *)
PackH_BigEndian(k) == << k \div 256, k % 256 >>

PackH(k) == << k % 256, k \div 256 >>

(* variant: the 32-bit fields signed ('<i'), 2^31 and more raising *)
PackI_ok_Signed(x) == 0 <= x.hi /\ x.hi < Base \div 2

(* '<I': an integer outside 0..2^32-1 raises struct.error *)
PackI_ok(x) == 0 <= x.hi /\ x.hi < Base

PackI(x) == << x.lo % 256, x.lo \div 256, x.hi % 256, x.hi \div 256 >>

(* variant: short strings padded with spaces *)
PackS_Spaces(width, b) == [i \in 1..width |-> IF i <= Len(b) THEN b[i] ELSE 32]

(* '<width>s': the first width bytes of b, zero bytes after the last one *)
PackS(width, b) == [i \in 1..width |-> IF i <= Len(b) THEN b[i] ELSE 0]

(* int(timestamp): the fraction is dropped *)
int(timestamp) == timestamp.sec

(* the UTF-8 encoding of one code point; the lone surrogates have none *)
IsSurrogate(cp) == 55296 <= cp /\ cp <= 57343

Utf8(cp) ==
    IF cp < 128 THEN << cp >>
    ELSE IF cp < 2048 THEN << 192 + (cp \div 64), 128 + (cp % 64) >>
    ELSE IF cp < 65536 THEN
        << 224 + (cp \div 4096), 128 + ((cp \div 64) % 64), 128 + (cp % 64) >>
    ELSE << 240 + (cp \div 262144), 128 + ((cp \div 4096) % 64),
            128 + ((cp \div 64) % 64), 128 + (cp % 64) >>

(* str.encode('utf-8') raises UnicodeEncodeError on a lone surrogate *)
Encode_ok(str) == \A i \in 1..Len(str) : ~IsSurrogate(str[i])

RECURSIVE EncodeRange(_, _, _)
EncodeRange(str, i, j) ==
    IF i > j THEN << >>
    ELSE IF i = j THEN Utf8(str[i])
    ELSE EncodeRange(str, i, (i + j) \div 2) \o EncodeRange(str, ((i + j) \div 2) + 1, j)

Encode(str) == EncodeRange(str, 1, Len(str))

----------------------------------------------------------------------------
(* create_firmware_header *)

TypeName == << 82, 66, 76, 0 >>

type_4 == PackS(4, TypeName)

algo_pack(algo) == PackH(algo)

algo2_pack(algo2) == PackH(algo2)

time_stamp_pack(timestamp) == PackI(int(timestamp))

part_name(part_name_str) == PackS(16, Encode(part_name_str))

fw_ver(fw_ver_str) == PackS(24, Encode(fw_ver_str))

prod_code(prod_code_str) == PackS(24, Encode(prod_code_str))

pkg_crc_pack(patch) == PackI(crc32(patch))

raw_crc_pack(new_fw) == PackI(crc32(new_fw))

raw_size_pack(new_fw) == PackI(BLen(new_fw))

pkg_size_pack(patch) == PackI(BLen(patch))

(* variant: the two payloads taken for one another *)
header_no_crc_Swapped(new_fw, patch, algo, algo2, timestamp, part_name_str, fw_ver_str, prod_code_str) ==
    type_4 \o algo_pack(algo) \o algo2_pack(algo2) \o time_stamp_pack(timestamp)
    \o part_name(part_name_str) \o fw_ver(fw_ver_str) \o prod_code(prod_code_str)
    \o pkg_crc_pack(new_fw) \o raw_crc_pack(patch) \o raw_size_pack(patch)
    \o pkg_size_pack(new_fw)

header_no_crc(new_fw, patch, algo, algo2, timestamp, part_name_str, fw_ver_str, prod_code_str) ==
    type_4 \o algo_pack(algo) \o algo2_pack(algo2) \o time_stamp_pack(timestamp)
    \o part_name(part_name_str) \o fw_ver(fw_ver_str) \o prod_code(prod_code_str)
    \o pkg_crc_pack(patch) \o raw_crc_pack(new_fw) \o raw_size_pack(new_fw)
    \o pkg_size_pack(patch)

(* variant: the header CRC taken before the four payload fields are added *)
hdr_crc_pack_Early(hnc) == PackI(crc32(Lit(SubSeq(hnc, 1, 76))))

hdr_crc_pack(hnc) == PackI(crc32(Lit(hnc)))

(* the exception the body raises, the statements taken in source order *)
Raised(new_fw, patch, algo, algo2, timestamp, part_name_str, fw_ver_str, prod_code_str) ==
    IF ~PackH_ok(algo) THEN "struct.error"
    ELSE IF ~PackH_ok(algo2) THEN "struct.error"
    ELSE IF ~PackI_ok(int(timestamp)) THEN "struct.error"
    ELSE IF ~Encode_ok(part_name_str) THEN "UnicodeEncodeError"
    ELSE IF ~Encode_ok(fw_ver_str) THEN "UnicodeEncodeError"
    ELSE IF ~Encode_ok(prod_code_str) THEN "UnicodeEncodeError"
    ELSE IF ~PackI_ok(BLen(new_fw)) THEN "struct.error"
    ELSE IF ~PackI_ok(BLen(patch)) THEN "struct.error"
    ELSE "none"

create_firmware_header(new_fw, patch, algo, algo2, timestamp, part_name_str, fw_ver_str, prod_code_str) ==
    LET e == Raised(new_fw, patch, algo, algo2, timestamp, part_name_str, fw_ver_str, prod_code_str)
        hnc == header_no_crc(new_fw, patch, algo, algo2, timestamp, part_name_str, fw_ver_str, prod_code_str)
    IN  IF e # "none" THEN [exc |-> e, value |-> << >>]
        ELSE [exc |-> "none", value |-> hnc \o hdr_crc_pack(hnc)]


----------------------------------------------------------------------------
(* Input values *)

Ts(h, l, f) == [sec |-> W(h, l), frac |-> f]

(* n lower-case ASCII letters *)
Letters(n) == [i \in 1..n |-> 97 + ((i - 1) % 26)]

Empty == << >>
FirmwareData == Lit(<< 70, 73, 82, 77, 87, 65, 82, 69, 68, 65, 84, 65 >>)
PatchData == Lit(<< 80, 65, 84, 67, 72, 68, 65, 84, 65 >>)
(* bytes(4 GiB): 2^32 zero bytes *)
Huge == Repeat(0, W(Base, 0))

App == << 97, 112, 112 >>
V100 == << 118, 49, 46, 48, 48 >>
ProductCode == [i \in 1..20 |-> IF i % 2 = 1 THEN 48 ELSE 48 + ((i \div 2) - 1)]

Args(a, b, al, al2, ts, pn, fv, pc0) ==
    [new_fw |-> a, patch |-> b, algo |-> al, algo2 |-> al2, timestamp |-> ts,
     part_name_str |-> pn, fw_ver_str |-> fv, prod_code_str |-> pc0]

BaseArgs == Args(FirmwareData, PatchData, 1024, 0, Ts(25939, 61696, 0), App, V100, ProductCode)

PayloadPairs ==
    { << PatchData, PatchData >>, << Empty, PatchData >>, << FirmwareData, FirmwareData >>,
      << FirmwareData, Empty >>, << Empty, Empty >>, << Huge, PatchData >>,
      << FirmwareData, Huge >>, << Repeat(65, W(0, 3)), PatchData >> }

AlgoSet == { 0, 65535, 65536 }

Algo2Set == { 1, 65536 }

TimestampSet ==
    { Ts(0, 0, 0), Ts(25939, 61696, 500), Ts(65535, 65535, 999), Ts(65536, 0, 0), Ts(131072, 7, 0) }

PartNameSet ==
    { << >>, Letters(16), Letters(17), Letters(15) \o << 233 >>, Letters(14) \o << 233 >>,
      << 55296 >>, << 128512, 8364 >> }

FwVerSet == { Letters(23) \o << 8364 >>, Letters(25) }

ProdCodeSet == { << 97, 57343 >>, Letters(30) }

ArgSet ==
    { BaseArgs }
    \cup { [BaseArgs EXCEPT !.new_fw = p[1], !.patch = p[2]] : p \in PayloadPairs }
    \cup { [BaseArgs EXCEPT !.algo = x] : x \in AlgoSet }
    \cup { [BaseArgs EXCEPT !.algo2 = x] : x \in Algo2Set }
    \cup { [BaseArgs EXCEPT !.timestamp = x] : x \in TimestampSet }
    \cup { [BaseArgs EXCEPT !.part_name_str = x] : x \in PartNameSet }
    \cup { [BaseArgs EXCEPT !.fw_ver_str = x] : x \in FwVerSet }
    \cup { [BaseArgs EXCEPT !.prod_code_str = x] : x \in ProdCodeSet }

----------------------------------------------------------------------------
(* A process that calls create_firmware_header again and again *)

MaxCalls == 2

Apply(a) ==
    create_firmware_header(a.new_fw, a.patch, a.algo, a.algo2, a.timestamp,
                           a.part_name_str, a.fw_ver_str, a.prod_code_str)

(* the builder applied to every argument tuple of ArgSet *)
Built == [a \in ArgSet |-> Apply(a)]

NoFile == [kind |-> "missing", data |-> << >>, mtime |-> Ts(0, 0, 0), perm |-> ""]
Unread == [ok |-> FALSE, data |-> << >>]
NoHead == [exc |-> "unset", value |-> << >>]
NoPath == [base |-> "", ext |-> ""]

ToolIdle ==
    /\ pc = "idle"
    /\ argv = << >>
    /\ fs = << >>
    /\ fs0 = << >>
    /\ new_fw_obj = Unread
    /\ patch_obj = Unread
    /\ my_head = NoHead
    /\ output_file = NoPath
    /\ out_open = FALSE
    /\ buffer_size = 0
    /\ out_buf = << >>
    /\ exit_code = "running"

Init ==
    /\ calls = << >>
    /\ ToolIdle

CallFrom(S) ==
    /\ pc = "idle"
    /\ \E a \in S : calls' = Append(calls, [args |-> a, result |-> Built[a]])
    /\ UNCHANGED << pc, argv, fs, fs0, new_fw_obj, patch_obj, my_head, output_file, Writer, exit_code >>

Call ==
    /\ Len(calls) < MaxCalls
    /\ CallFrom(ArgSet)

Next == Call

Spec == Init /\ [][Next]_vars

----------------------------------------------------------------------------
(* The command-line run: the __main__ block and package_patch *)

QBOOT_ALGO_CRYPT_NONE == 0
QBOOT_ALGO_CMPRS_HPATCHLITE == 1024

Path(b, e) == [base |-> b, ext |-> e]

(* os.path.splitext(p)[0] + ".rbl" *)
DefaultOutput(p) == Path(p.base, ".rbl")

PatchBin == Path("patch", ".bin")
NewBin == Path("new", ".bin")
PatchRbl == Path("patch", ".rbl")
NewRbl == Path("new", ".rbl")
Script == Path("package_tool", ".py")

(* the paths a command line may name, and those the run may touch *)
ArgPaths == { PatchBin, NewBin, PatchRbl }
Paths == ArgPaths \cup { DefaultOutput(p) : p \in ArgPaths }

MaxArgs == 4

ArgvSet == { << Script >> \o s : s \in UNION { [1..k -> ArgPaths] : k \in 0..MaxArgs } }

(* perm is what the process may do with the path: "rw", "r" (a file it may *)
(* read and not write, such as mode 0444 for its owner) or "w"             *)
File(d, t) == [kind |-> "file", data |-> d, mtime |-> t, perm |-> "rw"]
ReadOnly(d, t) == [File(d, t) EXCEPT !.perm = "r"]
WriteOnly(d, t) == [File(d, t) EXCEPT !.perm = "w"]
Dir == [kind |-> "dir", data |-> << >>, mtime |-> Ts(25939, 61696, 0), perm |-> "rw"]

(* a directory stands for every path that exists and cannot be opened,    *)
(* for reading or for writing                                              *)
FileStates(p) ==
    IF p = PatchBin THEN
        { NoFile, Dir, File(PatchData, Ts(25939, 61696, 500)), File(Empty, Ts(25939, 61696, 500)),
          File(Huge, Ts(25939, 61696, 500)), File(PatchData, Ts(Base, 0, 250)) }
    ELSE IF p = NewBin THEN
        { NoFile, Dir, File(FirmwareData, Ts(25939, 61000, 0)), File(Empty, Ts(25939, 61000, 0)),
          File(Huge, Ts(25939, 61000, 0)) }
    ELSE IF p = PatchRbl THEN
        { NoFile, File(Lit(<< 79, 76, 68 >>), Ts(25939, 60000, 0)),
          ReadOnly(Lit(<< 79, 76, 68 >>), Ts(25939, 60000, 0)),
          WriteOnly(Lit(<< 79, 76, 68 >>), Ts(25939, 60000, 0)) }
    ELSE { NoFile }

(* a patch as long as the larger write buffer *)
LargePatch == Repeat(80, W(0, 4 * 1024)) \o Repeat(90, W(0, 4 * 1024))

(* the file system of the runs that package the large patch *)
LargeFs ==
    { [p \in Paths |-> IF p = PatchBin THEN File(LargePatch, Ts(25939, 61696, 500))
                       ELSE IF p = NewBin THEN File(FirmwareData, Ts(25939, 61000, 0))
                       ELSE NoFile] }

FsSet ==
    { [p \in Paths |-> IF p = PatchBin THEN a ELSE IF p = NewBin THEN b ELSE IF p = PatchRbl THEN c ELSE d] :
        a \in FileStates(PatchBin), b \in FileStates(NewBin), c \in FileStates(PatchRbl), d \in FileStates(NewRbl) }
    \cup LargeFs

(* the modification time an opened output file gets *)
WriteTime == Ts(25939, 62000, 0)

patch_file == argv[2]
new_file == argv[3]

exists(p) == fs[p].kind # "missing"

(* open(p, "rb") succeeds *)
CanRead(p) == fs[p].kind = "file" /\ fs[p].perm \in { "rw", "r" }

(* open(p, "wb") succeeds: it creates a missing file *)
CanWrite(p) == fs[p].kind = "missing" \/ (fs[p].kind = "file" /\ fs[p].perm \in { "rw", "w" })

InitTool ==
    /\ calls = << >>
    /\ pc = "main"
    /\ argv \in ArgvSet
    /\ fs \in FsSet
    /\ fs0 = fs
    /\ new_fw_obj = Unread
    /\ patch_obj = Unread
    /\ my_head = NoHead
    /\ output_file = NoPath
    /\ out_open = FALSE
    /\ buffer_size = 0
    /\ out_buf = << >>
    /\ exit_code = "running"

Locals == << new_fw_obj, patch_obj, my_head >>

(* sys.exit(1), or an exception nobody catches: the process ends with status 1 *)
Exit1 ==
    /\ pc' = "done"
    /\ exit_code' = "exit 1"

ArgcOk == Len(argv) >= 3 /\ Len(argv) <= 4

Usage ==
    /\ pc = "main"
    /\ ~ArgcOk
    /\ Exit1
    /\ UNCHANGED << calls, argv, fs, fs0, Locals, output_file, Writer >>

PatchNotFound ==
    /\ pc = "main"
    /\ ArgcOk
    /\ ~exists(patch_file)
    /\ Exit1
    /\ UNCHANGED << calls, argv, fs, fs0, Locals, output_file, Writer >>

NewNotFound ==
    /\ pc = "main"
    /\ ArgcOk
    /\ exists(patch_file)
    /\ ~exists(new_file)
    /\ Exit1
    /\ UNCHANGED << calls, argv, fs, fs0, Locals, output_file, Writer >>

(* variant: the output file opened before the inputs are read *)
Start_OpensOutput ==
    /\ pc = "main"
    /\ ArgcOk
    /\ exists(patch_file)
    /\ exists(new_file)
    /\ output_file' = IF Len(argv) = 4 THEN argv[4] ELSE DefaultOutput(patch_file)
    /\ fs' = IF fs[output_file'].kind = "dir" \/ fs[output_file'].perm = "r" THEN fs
             ELSE [fs EXCEPT ![output_file'] = [kind |-> "file", data |-> << >>, mtime |-> Ts(25939, 62000, 0),
                                                perm |-> IF fs[output_file'].kind = "file" THEN @.perm ELSE "rw"]]
    /\ pc' = "read_new"
    /\ UNCHANGED << calls, argv, fs0, new_fw_obj, patch_obj, my_head, Writer, exit_code >>

Start ==
    /\ pc = "main"
    /\ ArgcOk
    /\ exists(patch_file)
    /\ exists(new_file)
    /\ output_file' = IF Len(argv) = 4 THEN argv[4] ELSE DefaultOutput(patch_file)
    /\ pc' = "read_new"
    /\ UNCHANGED << calls, argv, fs, fs0, new_fw_obj, patch_obj, my_head, Writer, exit_code >>

(* with open(new_file, "rb") as f: new_fw_obj = f.read() *)
ReadNew ==
    /\ pc = "read_new"
    /\ IF CanRead(new_file)
       THEN /\ new_fw_obj' = [ok |-> TRUE, data |-> fs[new_file].data]
            /\ pc' = "read_patch"
            /\ UNCHANGED exit_code
       ELSE /\ Exit1
            /\ UNCHANGED new_fw_obj
    /\ UNCHANGED << calls, argv, fs, fs0, patch_obj, my_head, output_file, Writer >>

(* with open(patch_file, "rb") as f: patch_obj = f.read() *)
ReadPatch ==
    /\ pc = "read_patch"
    /\ IF CanRead(patch_file)
       THEN /\ patch_obj' = [ok |-> TRUE, data |-> fs[patch_file].data]
            /\ pc' = "create"
            /\ UNCHANGED exit_code
       ELSE /\ Exit1
            /\ UNCHANGED patch_obj
    /\ UNCHANGED << calls, argv, fs, fs0, new_fw_obj, my_head, output_file, Writer >>

(* timestamp = os.path.getmtime(patch_file); my_head = create_firmware_header(...) *)
HeaderArgs ==
    Args(new_fw_obj.data, patch_obj.data, QBOOT_ALGO_CMPRS_HPATCHLITE, QBOOT_ALGO_CRYPT_NONE,
         fs[patch_file].mtime, App, V100, ProductCode)

CreateHeader ==
    /\ pc = "create"
    /\ my_head' = Apply(HeaderArgs)
    /\ calls' = Append(calls, [args |-> HeaderArgs, result |-> my_head'])
    /\ IF my_head'.exc = "none"
       THEN pc' = "open_out" /\ UNCHANGED exit_code
       ELSE Exit1
    /\ UNCHANGED << argv, fs, fs0, new_fw_obj, patch_obj, output_file, Writer >>

(* the buffer capacities open() gives the file object: the block size the *)
(* file system reports for the output file (any st_blksize above 1), or    *)
(* io.DEFAULT_BUFFER_SIZE, 8 KiB, when it reports none.  What a write does *)
(* depends on how the capacity compares with the length of the data and    *)
(* with that length plus what is buffered.  For the header (96 bytes) and  *)
(* the patches of FsSet (0, 3, 9, 12 and 8192 bytes) the set holds a       *)
(* capacity from each interval between those lengths and sums: the header  *)
(* written through or buffered, the patch fitting beside it, replacing it  *)
(* in the buffer, or written through.                                      *)
BufferSizes == { 2, 8, 11, 64, 96, 100, 105, 4 * 1024, 8 * 1024, 64 * 1024 }

(* the most one write() on the file descriptor transfers (Linux): 2^31 less *)
(* one page                                                                *)
MaxRawWrite == W(32767, 61440)

(* the first k bytes of the bytes object o, and what follows them *)
RECURSIVE BTake(_, _)
BTake(o, k) ==
    IF WIsZero(k) \/ o = << >> THEN << >>
    ELSE IF WLeq(Head(o).n, k) THEN << Head(o) >> \o BTake(Tail(o), WSub(k, Head(o).n))
    ELSE << [b |-> Head(o).b, n |-> k] >>

RECURSIVE BDrop(_, _)
BDrop(o, k) ==
    IF WIsZero(k) \/ o = << >> THEN o
    ELSE IF WLeq(Head(o).n, k) THEN BDrop(Tail(o), WSub(k, Head(o).n))
    ELSE << [b |-> Head(o).b, n |-> WSub(Head(o).n, k)] >> \o Tail(o)

(* the writer hands data longer than the buffer to the file descriptor:    *)
(* while more than size bytes remain, one write() of all that remains,     *)
(* which transfers at most MaxRawWrite of them.  The number of bytes left  *)
(* when the loop ends.                                                     *)
RECURSIVE Remaining(_, _)
Remaining(left, size) ==
    IF WLeq(left, size) THEN left
    ELSE IF WLeq(left, MaxRawWrite) THEN W(0, 0)
    ELSE Remaining(WSub(left, MaxRawWrite), size)

(* with open(output_file, "wb") as f: the file is created, or cut to       *)
(* length 0, and f is a buffered writer with nothing in its buffer         *)
OpenOutput ==
    /\ pc = "open_out"
    /\ IF ~CanWrite(output_file)
       THEN /\ Exit1
            /\ UNCHANGED << fs, Writer >>
       ELSE /\ fs' = [fs EXCEPT ![output_file] =
                        [File(Empty, WriteTime) EXCEPT !.perm = IF exists(output_file) THEN fs[output_file].perm ELSE "rw"]]
            /\ out_open' = TRUE
            /\ buffer_size' \in BufferSizes
            /\ out_buf' = Empty
            /\ pc' = "write_head"
            /\ UNCHANGED exit_code
    /\ UNCHANGED << calls, argv, fs0, Locals, output_file >>

(* f.write(data): data that fits in the free part of the buffer stays in   *)
(* the process; otherwise the buffer is written to the file first, and     *)
(* data becomes the new content of the buffer when it is no longer than    *)
(* the whole buffer, else it follows to the file, but for the bytes that   *)
(* remain after the last write(), which are buffered.  disk is what the    *)
(* file holds after the call, buf what the buffer holds.                   *)
Written(data) ==
    LET disk == fs[output_file].data
        size == WideOf(buffer_size)
    IN  IF WLeq(WAdd(BLen(out_buf), BLen(data)), size)
        THEN [disk |-> disk, buf |-> out_buf \o data]
        ELSE IF WLeq(BLen(data), size)
        THEN [disk |-> disk \o out_buf, buf |-> data]
        ELSE LET left == Remaining(BLen(data), size)
             IN  IF WIsZero(left)
                 THEN [disk |-> disk \o out_buf \o data, buf |-> Empty]
                 ELSE [disk |-> disk \o out_buf \o BTake(data, WSub(BLen(data), left)),
                       buf |-> BDrop(data, WSub(BLen(data), left))]

WriteHead ==
    /\ pc = "write_head"
    /\ LET w == Written(Lit(my_head.value))
       IN  /\ fs' = [fs EXCEPT ![output_file].data = w.disk]
           /\ out_buf' = w.buf
    /\ pc' = "write_patch"
    /\ UNCHANGED << calls, argv, fs0, Locals, output_file, out_open, buffer_size, exit_code >>

(* variant: the new firmware written after the header *)
WritePatch_NewFirmware ==
    /\ pc = "write_patch"
    /\ LET w == Written(new_fw_obj.data)
       IN  /\ fs' = [fs EXCEPT ![output_file].data = w.disk]
           /\ out_buf' = w.buf
    /\ pc' = "close"
    /\ UNCHANGED << calls, argv, fs0, Locals, output_file, out_open, buffer_size, exit_code >>

WritePatch ==
    /\ pc = "write_patch"
    /\ LET w == Written(patch_obj.data)
       IN  /\ fs' = [fs EXCEPT ![output_file].data = w.disk]
           /\ out_buf' = w.buf
    /\ pc' = "close"
    /\ UNCHANGED << calls, argv, fs0, Locals, output_file, out_open, buffer_size, exit_code >>

(* the end of the with block, and of the run: f.close() writes what the    *)
(* buffer still holds to the file                                          *)
Close ==
    /\ pc = "close"
    /\ fs' = [fs EXCEPT ![output_file].data = @ \o out_buf]
    /\ out_buf' = Empty
    /\ out_open' = FALSE
    /\ pc' = "done"
    /\ exit_code' = "exit 0"
    /\ UNCHANGED << calls, argv, fs0, Locals, output_file, buffer_size >>

NextTool ==
    \/ Usage
    \/ PatchNotFound
    \/ NewNotFound
    \/ Start
    \/ ReadNew
    \/ ReadPatch
    \/ CreateHeader
    \/ OpenOutput
    \/ WriteHead
    \/ WritePatch
    \/ Close

SpecTool == InitTool /\ [][NextTool]_vars

----------------------------------------------------------------------------
(* Reading a header back, as a verifier would *)

HeaderLen == 4 + 2 + 2 + 4 + 16 + 24 + 24 + 4 + 4 + 4 + 4 + 4

(* the little-endian uint32 at offset off (counted from 0) of header h *)
ReadU32(h, off) == W(h[off + 3] + 256 * h[off + 4], h[off + 1] + 256 * h[off + 2])

(* the little-endian uint16 at offset off *)
ReadU16(h, off) == h[off + 1] + 256 * h[off + 2]

(* the bytes at offsets off .. off + width - 1 *)
Field(h, off, width) == SubSeq(h, off + 1, off + width)

Zeros(n) == [i \in 1..n |-> 0]

Fits32(x) == 0 <= x.hi /\ x.hi < Base

HasCalls == Len(calls) > 0
Last == calls[Len(calls)]
Returned(c) == c.result.exc = "none"

(* the three string fields of a call: << string, offset, width >> *)
StringFields(a) ==
    { << a.part_name_str, 12, 16 >>, << a.fw_ver_str, 28, 24 >>, << a.prod_code_str, 52, 24 >> }

(* structural UTF-8 check of the bytes b[i..]: every lead byte is followed *)
(* by the continuation bytes it announces                                  *)
IsCont(b, i) == i <= Len(b) /\ b[i] >= 128 /\ b[i] <= 191

RECURSIVE ValidUtf8From(_, _)
ValidUtf8From(b, i) ==
    IF i > Len(b) THEN TRUE
    ELSE IF b[i] < 128 THEN ValidUtf8From(b, i + 1)
    ELSE IF b[i] >= 194 /\ b[i] <= 223 THEN IsCont(b, i + 1) /\ ValidUtf8From(b, i + 2)
    ELSE IF b[i] >= 224 /\ b[i] <= 239 THEN
        IsCont(b, i + 1) /\ IsCont(b, i + 2) /\ ValidUtf8From(b, i + 3)
    ELSE IF b[i] >= 240 /\ b[i] <= 244 THEN
        IsCont(b, i + 1) /\ IsCont(b, i + 2) /\ IsCont(b, i + 3) /\ ValidUtf8From(b, i + 4)
    ELSE FALSE

----------------------------------------------------------------------------
(* Claims.  A formula about "the call" speaks of the latest call; every    *)
(* call of a run is the latest one in the state right after it.            *)

(* C1: the last 4 bytes of every returned header, read as a little-endian  *)
(* uint32, are the CRC32 of the 92 bytes before them, and of nothing else. *)
C1_HeaderCrcCoversPriorFields ==
    (HasCalls /\ Returned(Last)) =>
        LET h == Last.result.value
        IN  /\ Len(h) = HeaderLen
            /\ ReadU32(h, 92) = crc32(Lit(SubSeq(h, 1, 92)))

C1_Witness ==
    /\ HasCalls
    /\ Returned(Last)
    /\ Last.args = BaseArgs

(* C2: package_crc and package_size describe the patch body, raw_crc and   *)
(* raw_size the new firmware; calls that share the patch body agree on the *)
(* package fields, calls that share the new firmware on the raw fields.    *)
C2_PayloadsNotConflated ==
    /\ (HasCalls /\ Returned(Last)) =>
        LET h == Last.result.value
        IN  /\ ReadU32(h, 76) = crc32(Last.args.patch)
            /\ ReadU32(h, 80) = crc32(Last.args.new_fw)
            /\ ReadU32(h, 84) = BLen(Last.args.new_fw)
            /\ ReadU32(h, 88) = BLen(Last.args.patch)
    /\ \A i, j \in 1..Len(calls) :
        (Returned(calls[i]) /\ Returned(calls[j])) =>
            LET g == calls[i].result.value
                h == calls[j].result.value
            IN  /\ calls[i].args.patch = calls[j].args.patch =>
                    (Field(g, 76, 4) = Field(h, 76, 4) /\ Field(g, 88, 4) = Field(h, 88, 4))
                /\ calls[i].args.new_fw = calls[j].args.new_fw =>
                    Field(g, 80, 8) = Field(h, 80, 8)

C2_Witness ==
    /\ Len(calls) = 2
    /\ Returned(calls[1])
    /\ Returned(calls[2])
    /\ calls[1].args.patch = calls[2].args.patch
    /\ calls[1].args.patch # << >>
    /\ calls[1].args.new_fw # calls[2].args.new_fw
    /\ BLen(calls[1].args.new_fw) # BLen(calls[1].args.patch)

(* C3: every returned header is 96 bytes long whatever the sizes of the    *)
(* inputs, and holds type_tag, algo, algo2, timestamp, part_name,          *)
(* fw_version, product_code, package_crc, raw_crc, raw_size, package_size  *)
(* and header_crc at offsets 0, 4, 6, 8, 12, 28, 52, 76, 80, 84, 88, 92,   *)
(* the integers little-endian.                                             *)
C3_FixedLayout ==
    (HasCalls /\ Returned(Last)) =>
        LET h == Last.result.value
            a == Last.args
        IN  /\ Len(h) = 4 + 2 + 2 + 4 + 16 + 24 + 24 + 4 + 4 + 4 + 4 + 4
            /\ Len(h) = HeaderLen
            /\ Field(h, 0, 4) = << 82, 66, 76, 0 >>
            /\ ReadU16(h, 4) = a.algo
            /\ ReadU16(h, 6) = a.algo2
            /\ ReadU32(h, 8) = a.timestamp.sec
            /\ Field(h, 12, 16) = SubSeq(Encode(a.part_name_str) \o Zeros(16), 1, 16)
            /\ Field(h, 28, 24) = SubSeq(Encode(a.fw_ver_str) \o Zeros(24), 1, 24)
            /\ Field(h, 52, 24) = SubSeq(Encode(a.prod_code_str) \o Zeros(24), 1, 24)
            /\ ReadU32(h, 76) = crc32(a.patch)
            /\ ReadU32(h, 80) = crc32(a.new_fw)
            /\ ReadU32(h, 84) = BLen(a.new_fw)
            /\ ReadU32(h, 88) = BLen(a.patch)
            /\ Field(h, 92, 4) = PackI(crc32(Lit(Field(h, 0, 92))))
            /\ \A i \in 1..Len(h) : h[i] \in 0..255

C3_Witness ==
    /\ HasCalls
    /\ Returned(Last)
    /\ Len(Encode(Last.args.prod_code_str)) > 24
    /\ Last.args.algo = 1024

(* C4: each string field is exactly its declared width; an encoding        *)
(* shorter than the width is followed by zero bytes, a longer one is cut   *)
(* to its first width bytes.                                               *)
C4_PadOrTruncate ==
    (HasCalls /\ Returned(Last)) =>
        \A f \in StringFields(Last.args) :
            LET enc == Encode(f[1])
                field == Field(Last.result.value, f[2], f[3])
            IN  /\ Len(field) = f[3]
                /\ Len(enc) < f[3] => field = enc \o Zeros(f[3] - Len(enc))
                /\ Len(enc) >= f[3] => field = SubSeq(enc, 1, f[3])

C4_Witness ==
    /\ HasCalls
    /\ Returned(Last)
    /\ Len(Encode(Last.args.part_name_str)) < 16
    /\ Len(Encode(Last.args.fw_ver_str)) > 24

(* C5: a string whose encoding is longer than its field is cut between two *)
(* code points: the field is the encoding of the first k code points, for  *)
(* some k, zero-padded, and what it holds is valid UTF-8.                  *)
C5_TruncatesAtCodepoint ==
    (HasCalls /\ Returned(Last)) =>
        \A f \in StringFields(Last.args) :
            Len(Encode(f[1])) > f[3] =>
                LET field == Field(Last.result.value, f[2], f[3])
                IN  /\ \E k \in 0..Len(f[1]) :
                        /\ Len(Encode(SubSeq(f[1], 1, k))) <= f[3]
                        /\ field = SubSeq(Encode(SubSeq(f[1], 1, k)) \o Zeros(f[3]), 1, f[3])
                    /\ ValidUtf8From(field, 1)

(* C6: a timestamp of 2^32 or more, passed with arguments that are valid   *)
(* otherwise, is accepted, and its low 32 bits are stored at offset 8.     *)
C6_WideTimestampTruncated ==
    (HasCalls /\ ~Fits32(Last.args.timestamp.sec)
        /\ Last.args = [BaseArgs EXCEPT !.timestamp = Last.args.timestamp]) =>
        /\ Returned(Last)
        /\ Len(Last.result.value) = HeaderLen
        /\ ReadU32(Last.result.value, 8) =
               W(Last.args.timestamp.sec.hi % Base, Last.args.timestamp.sec.lo)

(* the arguments are in the domain the contract names: algo and algo2 in   *)
(* 0..65535, the timestamp in 0..2^32-1, strings that UTF-8 can encode     *)
WellTyped(a) ==
    /\ a.algo \in 0..65535
    /\ a.algo2 \in 0..65535
    /\ Fits32(a.timestamp.sec)
    /\ \A f \in StringFields(a) : \A i \in 1..Len(f[1]) : ~(f[1][i] \in 55296..57343)

(* C7 as stated: a call with well-typed arguments returns a header, for    *)
(* payloads of any length.                                                 *)
C7_NeverRaises ==
    (HasCalls /\ WellTyped(Last.args)) => Returned(Last)

(* C7 amended: a call with well-typed arguments and payloads of fewer than *)
(* 2^32 bytes each (empty ones included) returns a header.                 *)
C7_NeverRaisesBelow4GiB ==
    (HasCalls /\ WellTyped(Last.args)
        /\ Fits32(BLen(Last.args.new_fw)) /\ Fits32(BLen(Last.args.patch))) =>
        /\ Returned(Last)
        /\ Len(Last.result.value) = HeaderLen

C7_Witness ==
    /\ HasCalls
    /\ Returned(Last)
    /\ Last.args.new_fw = << >>
    /\ Last.args.patch = << >>

(* a bytes object with neighbouring runs of one byte joined: two objects    *)
(* hold the same bytes exactly when these forms are equal                  *)
Join(x, y) ==
    IF x = << >> THEN y
    ELSE IF y = << >> THEN x
    ELSE IF x[Len(x)].b = y[1].b
    THEN SubSeq(x, 1, Len(x) - 1) \o << [b |-> y[1].b, n |-> WAdd(x[Len(x)].n, y[1].n)] >> \o Tail(y)
    ELSE x \o y

RECURSIVE Joined(_, _, _)
Joined(o, i, j) ==
    IF i > j THEN << >>
    ELSE IF i = j THEN (IF WIsZero(o[i].n) THEN << >> ELSE << o[i] >>)
    ELSE Join(Joined(o, i, (i + j) \div 2), Joined(o, ((i + j) \div 2) + 1, j))

SameBytes(x, y) == x = y \/ Joined(x, 1, Len(x)) = Joined(y, 1, Len(y))

(* the run has read both input files and has the complete header *)
Prepared ==
    /\ new_fw_obj.ok
    /\ patch_obj.ok
    /\ my_head.exc = "none"
    /\ Len(my_head.value) = HeaderLen

(* C8: the output file is opened, and the file system changed, only once   *)
(* both inputs are read and the header is built; a run that ends without   *)
(* them leaves every file as it found it.                                  *)
C8_OutputOnlyAfterInputsAndHeader ==
    /\ [][(fs' # fs \/ out_open') => (Prepared /\ pc \in {"open_out", "write_head", "write_patch", "close"})]_vars
    /\ []((pc = "done" /\ ~Prepared) => (fs = fs0 /\ ~out_open /\ exit_code = "exit 1"))

C8_Witness ==
    /\ pc = "done"
    /\ my_head.exc = "struct.error"
    /\ fs0[output_file].kind = "file"
    /\ fs = fs0

(* C9: after a successful run the output file holds the header that        *)
(* create_firmware_header returned and then the bytes the patch file held  *)
(* when the run began, nothing else; package_size and package_crc of that  *)
(* header are the length and the CRC32 of what follows the header.         *)
C9_PackageIsHeaderThenPatch ==
    (pc = "done" /\ exit_code = "exit 0") =>
        LET out == fs[output_file].data
            head == my_head.value
            patch == fs0[patch_file].data
            body == SubSeq(out, HeaderLen + 1, Len(out))
        IN  /\ my_head = calls[Len(calls)].result
            /\ Len(head) = HeaderLen
            /\ SameBytes(out, Lit(head) \o patch)
            /\ BLen(out) = WAdd(W(0, HeaderLen), BLen(patch))
            /\ ReadU32(head, 88) = BLen(body)
            /\ ReadU32(head, 76) = crc32(body)

C9_Witness ==
    /\ pc = "done"
    /\ exit_code = "exit 0"
    /\ fs0[patch_file].data = PatchData
    /\ fs0[new_file].data = FirmwareData
    /\ output_file = patch_file
    /\ buffer_size = 100


====
